---- MODULE Spec2Model ----
(***************************************************************************)
(* ReceiptsHub: creation, storage, lookup and listing of purchase checks.  *)
(*                                                                         *)
(* Money.  The request schemas carry decimal.Decimal values, and all       *)
(* arithmetic of calculate_totals and add_products_to_check is Decimal     *)
(* arithmetic, which is exact.  A Decimal is modelled by the integer       *)
(* number of hundredths it denotes (25.50 is 2550); prices and quantities  *)
(* are multiples of a tenth, so that every product is a whole number of    *)
(* hundredths.                                                             *)
(*                                                                         *)
(* The tables declare every numeric column as Float (double precision).    *)
(* Writing a Decimal to such a column rounds it to the nearest IEEE-754    *)
(* double.  A stored number is modelled exactly, as the record             *)
(*     [u |-> n, e |-> d]   denoting   (n * 2^59 + d) / (100 * 2^59),      *)
(* where n is the Decimal that was written (in hundredths) and d the       *)
(* rounding error of the conversion.                                       *)
(***************************************************************************)
EXTENDS Integers, Sequences, FiniteSets, TLC

\* ------------------------------------------------------------------ bounds
\* Number of check identifiers the id sequence hands out in a run.
MaxId == 2
\* Largest number of products in one create request.
MaxProducts == 2
\* Number of calendar days the run spans.
MaxDay == 2

\* ------------------------------------------------- double precision (Float)
\* Fraction bits of a double: a normal double is M * 2^(E - 52), 2^52 <= M < 2^53.
MantissaBits == 52
\* Rounding errors are counted in units of 1 / (100 * 2^ErrScale).
ErrScale == 59

RECURSIVE Pow2(_)
Pow2(k) == IF k = 0 THEN 1 ELSE 2 * Pow2(k - 1)

RECURSIVE Pow2Mod100(_)
Pow2Mod100(k) == IF k = 0 THEN 1 ELSE (2 * Pow2Mod100(k - 1)) % 100

\* Binary exponent of n hundredths, n > 0: the E with 2^E <= n/100 < 2^(E+1).
RECURSIVE Exponent(_)
Exponent(n) ==
    IF n >= 200 THEN 1 + Exponent(n \div 2)
    ELSE IF n < 100 THEN Exponent(2 * n) - 1
    ELSE 0

\* Rounding error of the double nearest to n hundredths (n > 0), in units of
\* 1 / (100 * 2^ErrScale).  With s = MantissaBits - Exponent(n) the double is
\* M / 2^s for the integer M nearest to n * 2^s / 100; r is the remainder of
\* that division.  A tie (r = 50) cannot occur, since 4 divides n * 2^s.
RoundingError(n) ==
    LET E == Exponent(n)
        s == MantissaBits - E
        r == ((n % 100) * Pow2Mod100(s)) % 100
        d == IF r < 50 THEN 0 - r ELSE 100 - r
    IN  d * Pow2(ErrScale - s)

\* The double a Float column holds after the Decimal of n hundredths is
\* written to it.
ToFloat(n) ==
    IF n = 0 THEN [u |-> 0, e |-> 0]
    ELSE IF n > 0 THEN [u |-> n, e |-> RoundingError(n)]
    ELSE [u |-> n, e |-> 0 - RoundingError(0 - n)]

FZero == [u |-> 0, e |-> 0]
FLess(a, b) == a.u < b.u \/ (a.u = b.u /\ a.e < b.e)
FLeq(a, b) == a = b \/ FLess(a, b)
FAdd(a, b) == [u |-> a.u + b.u, e |-> a.e + b.e]
\* A double is a whole number exactly when pydantic accepts it for an int field.
FIsWhole(a) == a.e = 0 /\ a.u % 100 = 0


\* ------------------------------------------------------------------ users
\* hash_password / verify_password: the stored hash matches exactly the
\* password it was made from.
hash_password(password) == <<"bcrypt", password>>
verify_password(plain_password, hashed_password) ==
    hashed_password = hash_password(plain_password)

\* The users table (id, full_name, username, password hash) as the run finds
\* it: both users registered earlier.
Users ==
    { [id |-> 1, full_name |-> "Ann Lee", username |-> "ann",
       password |-> hash_password("AnnPw1")],
      [id |-> 2, full_name |-> "Bob Ray", username |-> "bob",
       password |-> hash_password("BobPw1")] }
UserIds == { usr.id : usr \in Users }
\* The caller of a request that was answered before a user was resolved.
NoUser == 0
Callers == UserIds \cup {NoUser}
\* An optional value: None is the empty sequence, a present value v is <<v>>.
None == <<>>
Some(values) == { <<v>> : v \in values }

\* get_user_or_none: select(User).filter_by(username=...), .first().  The
\* outcomes the query can have: None when no row matches, else any one of the
\* matching rows.
get_user_or_none(table, username) ==
    LET found == { usr \in table : <<usr.username>> = username }
    IN  IF found = {} THEN {None} ELSE Some(found)

\* --------------------------------------------------------- authentication
\* Config.SECRET_KEY, with which create_access_token signs.
SecretKey == "SECRET_KEY"

\* A JWT: the key that signed it and its claims exp and sub (each optional).
\* exp is counted on the clock of the run.
Token(keys, exps, subs) ==
    [ key : keys, exp : Some(exps) \cup {None}, sub : Some(subs) \cup {None} ]

\* The token a login of `username` got, good until after the run ends.
TokenOf(username) ==
    [key |-> SecretKey, exp |-> <<MaxDay + 1>>, sub |-> <<username>>]

\* The receipthub_access_token cookie of a request: None or <<token>>.
CookieOf(username) == <<TokenOf(username)>>

\* A decode that verifies no signature.
decode_any_key(token, now) == token.exp # None => token.exp[1] >= now

\* jwt.decode raises JWTError for a token not signed with SECRET_KEY and for
\* one that carries an exp in the past (ExpiredSignatureError).
decode(token, now) ==
    /\ token.key = SecretKey
    /\ token.exp # None => token.exp[1] >= now

\* get_token and get_current_user: HTTP 401 for a missing cookie, a
\* JWTError, a missing (or zero) exp and an exp in the past; else the
\* outcomes of get_user_or_none for the token's sub.
get_current_user(table, cookie, now) ==
    IF cookie = None
    THEN { [status |-> 401] }
    ELSE LET token == cookie[1]
         IN  IF ~decode(token, now)
             THEN { [status |-> 401] }
             ELSE IF token.exp = None \/ token.exp[1] = 0
                       \/ token.exp[1] < now
                  THEN { [status |-> 401] }
                  ELSE { [status |-> 200, user |-> usr] :
                           usr \in get_user_or_none(table, token.sub) }

\* ------------------------------------------------------- request schemas
\* ProductCreate: name: str, price: Decimal, quantity: Decimal.  The schema
\* declares no validator, so every string and every Decimal is accepted.
ProductCreate(names, prices, quantities) ==
    [name : names, price : prices, quantity : quantities]

\* PaymentCreate: type: str, amount: Decimal; no validator.
PaymentCreate(types, amounts) == [type : types, amount : amounts]

RECURSIVE SeqsUpTo(_, _)
SeqsUpTo(S, n) ==
    IF n = 0 THEN { <<>> }
    ELSE LET shorter == SeqsUpTo(S, n - 1)
         IN  shorter \cup { Append(q, el) : q \in shorter, el \in S }

\* CheckCreate: products: List[ProductCreate], payment: PaymentCreate.
CheckCreate(productSet, paymentSet) ==
    [products : SeqsUpTo(productSet, MaxProducts), payment : paymentSet]

\* Decimal multiplication, exact: both factors are whole tenths.
DecimalMul(a, b) == (a * b) \div 100

\* A line total that leaves the quantity out.
ProductTotal_price_only(product) == product.price

\* product.price * product.quantity
ProductTotal(product) == DecimalMul(product.price, product.quantity)

\* sum(product.price * product.quantity for product in check_data.products)
RECURSIVE SumTotals(_)
SumTotals(ps) ==
    IF ps = <<>> THEN 0 ELSE ProductTotal(Head(ps)) + SumTotals(Tail(ps))

\* calculate_totals without its "if rest < 0" check.
calculate_totals_no_check(check_data) ==
    LET total == SumTotals(check_data.products)
        rest == check_data.payment.amount - total
    IN  [raised |-> FALSE, total |-> total, rest |-> rest]

\* calculate_totals: the total, the rest, and whether the HTTPException(400)
\* "Payment amount is less than the total price" is raised.
calculate_totals(check_data) ==
    LET total == SumTotals(check_data.products)
        rest == check_data.payment.amount - total
    IN  [raised |-> rest < 0, total |-> total, rest |-> rest]

\* ------------------------------------------------------------- the tables
\* Check(user_id, total, payment_type, payment_amount, rest) as flushed: id
\* from the checks id sequence, created_at from the column default
\* (datetime.now().date()); every Float column holds the rounded double.
NewCheck(id, day, user_id, total, rest, payment_type, payment_amount) ==
    [ id |-> id,
      user_id |-> user_id,
      created_at |-> day,
      total |-> ToFloat(total),
      payment_type |-> payment_type,
      payment_amount |-> ToFloat(payment_amount),
      rest |-> ToFloat(rest) ]

\* Product(name, price, quantity, total = price * quantity, check_id).
NewProduct(check_id, product_data) ==
    [ check_id |-> check_id,
      name |-> product_data.name,
      price |-> ToFloat(product_data.price),
      quantity |-> ToFloat(product_data.quantity),
      total |-> ToFloat(DecimalMul(product_data.price, product_data.quantity)) ]

\* Products attached to the check of the request that began just before.
add_products_to_previous_check(check_id, products_data) ==
    [ i \in 1..Len(products_data) |->
        NewProduct(check_id - 1, products_data[i]) ]

\* add_products_to_check: one Product row per requested product, in order.
add_products_to_check(check_id, products_data) ==
    [ i \in 1..Len(products_data) |-> NewProduct(check_id, products_data[i]) ]

\* Check.products: the rows of the products table that reference the check.
ProductsOf(table, check_id) ==
    SelectSeq(table, LAMBDA row : row.check_id = check_id)

\* Check.products as a load returns it.  The relationship declares no
\* order_by and selectinload emits SELECT ... FROM products WHERE
\* products.check_id IN (...) with no ORDER BY, so the database may return
\* the rows of the check in any order.
selectinload(table, check_id) ==
    LET rows == ProductsOf(table, check_id)
        n == Len(rows)
    IN  { [i \in 1..n |-> rows[p[i]]] :
            p \in { q \in [1..n -> 1..n] :
                      \A i, j \in 1..n : q[i] = q[j] => i = j } }

\* ------------------------------------------------------ response schemas
\* ProductResponse: price: Decimal, quantity: int, total: int, each checked
\* by check_non_negative.  An int field accepts a float only if it is whole.
ProductResponseValid(row) ==
    /\ ~FLess(row.price, FZero)
    /\ FIsWhole(row.quantity) /\ ~FLess(row.quantity, FZero)
    /\ FIsWhole(row.total) /\ ~FLess(row.total, FZero)

\* CreateCheckResponse: total: int, rest: Decimal, both non-negative, and a
\* list of ProductResponse.
CreateCheckResponseValid(check, rows) ==
    /\ FIsWhole(check.total) /\ ~FLess(check.total, FZero)
    /\ ~FLess(check.rest, FZero)
    /\ \A i \in 1..Len(rows) : ProductResponseValid(rows[i])

\* ------------------------------------------------------- the text receipt
\* Python's format specifications.  A receipt is modelled line by line (the
\* code ends each line but the last with "\n").  The Cyrillic labels of the
\* receipt are written with one Latin letter for each of their letters, so
\* that every label keeps its length.
RECURSIVE Repeat(_, _)
Repeat(char, n) == IF n <= 0 THEN "" ELSE char \o Repeat(char, n - 1)

\* f"{text:<{width}}", f"{text:>{width}}": pad with spaces up to the width;
\* a text longer than the width is left as it is.
LeftAlign(text, width) == text \o Repeat(" ", width - Len(text))
RightAlign(text, width) == Repeat(" ", width - Len(text)) \o text

Digit(d) == <<"0", "1", "2", "3", "4", "5", "6", "7", "8", "9">>[d + 1]

RECURSIVE Digits(_)
Digits(n) == IF n < 10 THEN Digit(n) ELSE Digits(n \div 10) \o Digit(n % 10)

\* The "," option: the integer part in groups of three digits.
RECURSIVE Grouped(_)
Grouped(n) ==
    IF n < 1000 THEN Digits(n)
    ELSE Grouped(n \div 1000) \o "," \o Digit((n \div 100) % 10)
           \o Digit((n \div 10) % 10) \o Digit(n % 10)

\* The ".2f" presentation of a double, with or without the "," option: the
\* double is rounded to the nearest hundredth, which is the Decimal it was
\* converted from (its rounding error is far below half a hundredth).
FixedPoint(x, comma) ==
    LET hundredths == IF x.u < 0 THEN 0 - x.u ELSE x.u
        whole == hundredths \div 100
        cents == hundredths % 100
    IN  (IF x.u < 0 THEN "-" ELSE "")
          \o (IF comma THEN Grouped(whole) ELSE Digits(whole))
          \o "." \o Digit(cents \div 10) \o Digit(cents % 10)

\* check.created_at.strftime('%d.%m.%Y %H:%M'): created_at is a date, so the
\* time of day comes out as 00:00.  Day n of the run is the n-th of January.
strftime(day) ==
    Digit(day \div 10) \o Digit(day % 10) \o ".01.2025 00:00"

\* get_check_text(fop_width=10, qty_width=6, price_width=12, name_width=20,
\*                total_width=12, sum_width=20, payment_width=15,
\*                date_width=20): the query parameters and their defaults.
DefaultWidths ==
    [ fop_width |-> 10, qty_width |-> 6, price_width |-> 12,
      name_width |-> 20, total_width |-> 12, sum_width |-> 20,
      payment_width |-> 15, date_width |-> 20 ]

\* The two lines the loop of get_check_text writes for one product.
ProductLines(product, w) ==
    << RightAlign(FixedPoint(product.quantity, FALSE), w.qty_width)
         \o " x " \o RightAlign(FixedPoint(product.price, TRUE), w.price_width),
       LeftAlign(product.name, w.name_width)
         \o " " \o RightAlign(FixedPoint(product.total, TRUE), w.total_width) >>

RECURSIVE ProductBlocks(_, _)
ProductBlocks(rows, w) ==
    IF rows = <<>> THEN <<>>
    ELSE ProductLines(Head(rows), w) \o ProductBlocks(Tail(rows), w)

\* The three summary lines of get_check_text.
SummaryLines(check, w) ==
    << LeftAlign("SUMA", w.sum_width)
         \o " " \o RightAlign(FixedPoint(check.total, TRUE), w.total_width),
       LeftAlign("Kartka", w.payment_width)
         \o " " \o RightAlign(FixedPoint(check.payment_amount, TRUE),
                              w.total_width),
       LeftAlign("Resta", w.payment_width)
         \o " " \o RightAlign(FixedPoint(check.rest, TRUE), w.total_width) >>

\* check_text as get_check_text builds it from the loaded check, its user's
\* full name and its products in the order they were loaded.
check_text(check, full_name, rows, w) ==
    LET rule_width == w.fop_width + Len(full_name) + 1
    IN  << RightAlign("FOP", w.fop_width) \o " " \o full_name,
           Repeat("=", rule_width) >>
        \o ProductBlocks(rows, w)
        \o << Repeat("-", rule_width) >>
        \o SummaryLines(check, w)
        \o << Repeat("=", rule_width),
              LeftAlign(strftime(check.created_at), w.date_width),
              "Dakuemo za pokupku!" >>

VARIABLES
    users,       \* committed rows of the users table
    checks,      \* committed rows of the checks table
    products,    \* committed rows of the products table, in insertion order
    nextId,      \* next value of the checks id sequence
    today,       \* the current date, as a day number
    sess,        \* per request in progress: the open database session
    requested,   \* history: the products submitted for each allocated check id
    ev           \* the step just taken and, for a finished request, its response

vars == <<users, checks, products, nextId, today, sess, requested, ev>>

\* Requests that may be in progress at the same time.
Sessions == {1, 2}

Idle == [pc |-> "idle"]

Init ==
    /\ users = Users
    /\ checks = {}
    /\ products = <<>>
    /\ nextId = 1
    /\ today = 1
    /\ sess = [s \in Sessions |-> Idle]
    /\ requested = <<>>
    /\ ev = [op |-> "init"]

\* ---------------------------------------------------- POST /checks/create
\* create_check up to the first await on the database: get_current_user,
\* calculate_totals, create_check_record (session.add + session.flush).  The
\* flushed row is visible only inside the session's open transaction.  With a
\* token whose sub matches no user, get_current_user returns None and
\* user.id raises AttributeError (HTTP 500) once calculate_totals has passed.
\* The run takes create requests until the id sequence has handed out MaxId
\* ids.
CreateCheck(s, cookie, check_data) ==
    /\ sess[s].pc = "idle"
    /\ nextId <= MaxId
    /\ \E auth \in get_current_user(users, cookie, today) :
         LET totals == calculate_totals(check_data)
             caller == IF auth.status = 200 /\ auth.user # None
                       THEN auth.user[1].id ELSE NoUser
             answer(status) ==
                 /\ ev' = [op |-> "create", caller |-> caller,
                           cookie |-> cookie, req |-> check_data,
                           status |-> status]
                 /\ UNCHANGED <<users, checks, products, nextId, today, sess,
                                requested>>
         IN  IF auth.status = 401
             THEN /\ ev' = [op |-> "create", caller |-> caller,
                            cookie |-> cookie, status |-> 401]
                  /\ UNCHANGED <<users, checks, products, nextId, today, sess,
                                 requested>>
             ELSE IF totals.raised THEN answer(400)
             ELSE IF auth.user = None THEN answer(500)
             ELSE /\ sess' = [sess EXCEPT ![s] =
                         [ pc |-> "header",
                           caller |-> caller,
                           cookie |-> cookie,
                           req |-> check_data,
                           new_check |-> NewCheck(nextId, today, caller,
                                           totals.total, totals.rest,
                                           check_data.payment.type,
                                           check_data.payment.amount),
                           pending |-> <<>> ]]
                  /\ nextId' = nextId + 1
                  /\ requested' = requested @@
                                    (nextId :> check_data.products)
                  /\ ev' = [op |-> "create_check_record", id |-> nextId]
                  /\ UNCHANGED <<users, checks, products, today>>

\* add_products_to_check and the flush that session.commit() starts with: the
\* product rows are inserted inside the open transaction.
InsertProducts(s) ==
    /\ sess[s].pc = "header"
    /\ sess' = [sess EXCEPT
                  ![s].pc = "products",
                  ![s].pending = add_products_to_check(sess[s].new_check.id,
                                                       sess[s].req.products)]
    /\ ev' = [op |-> "add_products_to_check", id |-> sess[s].new_check.id]
    /\ UNCHANGED <<users, checks, products, nextId, today, requested>>

\* A commit issued before add_products_to_check: the header alone.
CommitHeaderOnly(session) == [check |-> session.new_check, products |-> <<>>]

\* What the COMMIT of the session's transaction makes visible: the header and
\* every product row inserted in it.
Transaction(session) ==
    [check |-> session.new_check, products |-> session.pending]

\* The COMMIT, then fetch_check_with_products and the CreateCheckResponse.
\* A response that fails validation is an unhandled error (HTTP 500) raised
\* after the commit.
Commit(s) ==
    /\ sess[s].pc = "products"
    /\ LET tx == Transaction(sess[s])
           table == products \o tx.products
           rows == ProductsOf(table, tx.check.id)
       IN  /\ checks' = checks \cup {tx.check}
           /\ products' = table
           /\ ev' = [op |-> "create", caller |-> sess[s].caller,
                     req |-> sess[s].req, id |-> tx.check.id,
                     status |-> IF CreateCheckResponseValid(tx.check, rows)
                                THEN 200 ELSE 500]
    /\ sess' = [sess EXCEPT ![s] = Idle]
    /\ UNCHANGED <<users, nextId, today, requested>>

\* The database fails while the transaction is open (PersistenceFailure): the
\* exception leaves get_db's "async with", which closes the session and rolls
\* the transaction back.  The id taken from the sequence is not given back.
Fail(s) ==
    /\ sess[s].pc \in {"header", "products"}
    /\ sess' = [sess EXCEPT ![s] = Idle]
    /\ requested' = [i \in DOMAIN requested \ {sess[s].new_check.id}
                       |-> requested[i]]
    /\ ev' = [op |-> "create", caller |-> sess[s].caller, req |-> sess[s].req,
              status |-> 500]
    /\ UNCHANGED <<users, checks, products, nextId, today>>

\* Midnight passes.
Tick ==
    /\ today < MaxDay
    /\ today' = today + 1
    /\ ev' = [op |-> "tick"]
    /\ UNCHANGED <<users, checks, products, nextId, sess, requested>>


\* ----------------------------------------------------- POST /auth/register
\* Registration: full_name, username, password (the validators of the schema
\* are taken as passed).
Registration(full_names, usernames, passwords) ==
    [full_name : full_names, username : usernames, password : passwords]

\* register_user up to session.add: HTTP 400 "Username already exists" when
\* get_user_or_none finds the username, else the new User waits in the
\* session for the commit.
RegisterUser(s, user_data) ==
    /\ sess[s].pc = "idle"
    /\ \E user_exist \in get_user_or_none(users, <<user_data.username>>) :
         IF user_exist # None
         THEN /\ ev' = [op |-> "register", req |-> user_data, status |-> 400]
              /\ UNCHANGED sess
         ELSE /\ sess' = [sess EXCEPT ![s] =
                     [ pc |-> "register",
                       req |-> user_data,
                       new_user |->
                           [ full_name |-> user_data.full_name,
                             username |-> user_data.username,
                             password |-> hash_password(user_data.password) ] ]]
              /\ ev' = [op |-> "get_user_or_none",
                        username |-> user_data.username]
    /\ UNCHANGED <<users, checks, products, nextId, today, requested>>

\* The users table takes the row: the INSERT of session.commit().  The
\* declaration of the table is not among the sources; the row gets the next
\* id, and a username that is already stored is either accepted (no unique
\* constraint) or refused with an IntegrityError (a unique constraint).
InsertUser(table, new_user) ==
    LET row == [ id |-> Cardinality(table) + 1,
                 full_name |-> new_user.full_name,
                 username |-> new_user.username,
                 password |-> new_user.password ]
    IN  IF \E usr \in table : usr.username = new_user.username
        THEN { [raised |-> FALSE, table |-> table \cup {row}],
               [raised |-> TRUE, table |-> table] }
        ELSE { [raised |-> FALSE, table |-> table \cup {row}] }

\* session.commit() of register_user and the RegistrationResponse; an
\* IntegrityError is not caught (HTTP 500).
CommitUser(s) ==
    /\ sess[s].pc = "register"
    /\ \E outcome \in InsertUser(users, sess[s].new_user) :
         /\ users' = outcome.table
         /\ ev' = [op |-> "register", req |-> sess[s].req,
                   status |-> IF outcome.raised THEN 500 ELSE 200]
    /\ sess' = [sess EXCEPT ![s] = Idle]
    /\ UNCHANGED <<checks, products, nextId, today, requested>>

\* -------------------------------------------------------- POST /auth/login
\* Config.ACCESS_TOKEN_EXPIRE_MINUTES, on the clock of the run.
TokenLifetime == 1

\* create_access_token({"sub": user.username}): exp is now + the lifetime.
create_access_token(username, now) ==
    [key |-> SecretKey, exp |-> <<now + TokenLifetime>>, sub |-> <<username>>]

\* login_user: authenticate_user finds the user and verifies the password;
\* HTTP 400 "Invalid credentials", else the token (also set as the cookie).
LoginUser(username, password) ==
    /\ \E found \in get_user_or_none(users, <<username>>) :
         ev' = IF found # None /\ verify_password(password, found[1].password)
               THEN [op |-> "login", username |-> username, status |-> 200,
                     access_token |-> create_access_token(username, today)]
               ELSE [op |-> "login", username |-> username, status |-> 400]
    /\ UNCHANGED <<users, checks, products, nextId, today, sess, requested>>

\* --------------------------------------------------- GET /checks/{check_id}
\* The lookup without its Check.user_id == user_id condition.
get_check_by_id_any_owner(table, check_id, user_id) ==
    LET found == { c \in table : c.id = check_id }
    IN  IF found = {} THEN None ELSE <<CHOOSE c \in found : TRUE>>

\* get_check_by_id_from_db: select(Check).where(and_(Check.id == check_id,
\* Check.user_id == user_id)), .first(); None when no row matches.
get_check_by_id_from_db(table, check_id, user_id) ==
    LET found == { c \in table : c.id = check_id /\ c.user_id = user_id }
    IN  IF found = {} THEN None ELSE <<CHOOSE c \in found : TRUE>>

\* get_check_by_id: 401 from get_current_user, AttributeError (500) on
\* user.id when no user was found, 404 "Check not found", else the
\* GetDetailCheckResponse (500 when it fails validation).
GetCheckById(cookie, check_id) ==
    /\ \E auth \in get_current_user(users, cookie, today) :
         LET caller == IF auth.status = 200 /\ auth.user # None
                       THEN auth.user[1].id ELSE NoUser
             answer(status) ==
                 ev' = [op |-> "get", caller |-> caller, cookie |-> cookie,
                        id |-> check_id, status |-> status]
         IN  IF auth.status = 401 THEN answer(401)
             ELSE IF auth.user = None THEN answer(500)
             ELSE LET found == get_check_by_id_from_db(checks, check_id,
                                                       caller)
                  IN  IF found = None THEN answer(404)
                      ELSE \E rows \in selectinload(products, found[1].id) :
                             IF CreateCheckResponseValid(found[1], rows)
                             THEN ev' = [op |-> "get", caller |-> caller,
                                         cookie |-> cookie, id |-> check_id,
                                         status |-> 200, check |-> found[1],
                                         products |-> rows]
                             ELSE answer(500)
    /\ UNCHANGED <<users, checks, products, nextId, today, sess, requested>>

\* ---------------------------------------------- GET /checks/{check_id}/text
\* get_check_text takes no get_current_user dependency and selects
\* select(Check).where(Check.id == check_id): the caller plays no part.  The
\* response is the text built from the check, its user and its products.
GetCheckText(caller, check_id, widths) ==
    /\ LET found == { c \in checks : c.id = check_id }
       IN  IF found = {}
           THEN ev' = [op |-> "text", caller |-> caller, id |-> check_id,
                       status |-> 404]
           ELSE LET check == CHOOSE c \in found : TRUE
                    user == CHOOSE usr \in users : usr.id = check.user_id
                IN  \E rows \in selectinload(products, check.id) :
                      ev' = [op |-> "text", caller |-> caller,
                             id |-> check_id, status |-> 200,
                             check |-> check, products |-> rows,
                             widths |-> widths,
                             text |-> check_text(check, user.full_name,
                                                 rows, widths)]
    /\ UNCHANGED <<users, checks, products, nextId, today, sess, requested>>

\* ------------------------------------------------------- GET /checks/list
\* CheckFilterParams: five optional query parameters.
CheckFilterParams(dates, totals, types) ==
    [ created_from : Some(dates) \cup {None},
      created_to : Some(dates) \cup {None},
      min_total : Some(totals) \cup {None},
      max_total : Some(totals) \cup {None},
      payment_type : Some(types) \cup {None} ]

\* Python truth of an optional float: None and 0.0 are both false.
Truthy(value) == value # None /\ value[1] # 0

\* apply_filters: the conjunction of the conditions appended to
\* query_filters, as a predicate on a row of checks.  created_from and
\* created_to are strings (true unless absent); min_total and max_total are
\* floats, so each "if filters.x:" is also false for the value 0.
apply_filters(filters, user_id, check) ==
    /\ filters.created_from # None =>
           check.created_at >= filters.created_from[1]
    /\ filters.created_to # None =>
           check.created_at <= filters.created_to[1]
    /\ Truthy(filters.min_total) =>
           FLeq(ToFloat(filters.min_total[1]), check.total)
    /\ Truthy(filters.max_total) =>
           FLeq(check.total, ToFloat(filters.max_total[1]))
    /\ filters.payment_type # None =>
           check.payment_type = filters.payment_type[1]
    /\ check.user_id = user_id

\* Every order in which the rows of a set can come back.
RECURSIVE Orderings(_)
Orderings(S) ==
    IF S = {} THEN { <<>> }
    ELSE UNION { { <<el>> \o rest : rest \in Orderings(S \ {el}) } : el \in S }

Min(a, b) == IF a < b THEN a ELSE b

\* get_filtered_checks_query: select(Check).where(and_(*filters,
\* Check.user_id == user_id)).offset(skip).limit(per_page).  The query has no
\* ORDER BY, so the database may return the matching rows in any order;
\* `order` is the order it picks for this execution.
get_filtered_checks_query(order, skip, per_page) ==
    SubSeq(order, skip + 1, Min(Len(order), skip + per_page))

\* list_checks: 401 from get_current_user, AttributeError (500) on user.id
\* when no user was found, else the page of CreateCheckResponse (500 when one
\* of them fails validation).
ListChecks(cookie, filters, skip, per_page) ==
    /\ \E auth \in get_current_user(users, cookie, today) :
         LET caller == IF auth.status = 200 /\ auth.user # None
                       THEN auth.user[1].id ELSE NoUser
         IN  IF auth.status = 401 \/ auth.user = None
             THEN ev' = [op |-> "list", caller |-> caller, cookie |-> cookie,
                         status |-> IF auth.status = 401 THEN 401 ELSE 500]
             ELSE \E order \in Orderings(
                         { c \in checks : apply_filters(filters, caller, c) }) :
                    LET page == get_filtered_checks_query(order, skip, per_page)
                        valid == \A i \in 1..Len(page) :
                                   CreateCheckResponseValid(page[i],
                                       ProductsOf(products, page[i].id))
                    IN  ev' = IF valid
                              THEN [op |-> "list", caller |-> caller,
                                    cookie |-> cookie, filters |-> filters,
                                    skip |-> skip, per_page |-> per_page,
                                    status |-> 200, result |-> page]
                              ELSE [op |-> "list", caller |-> caller,
                                    cookie |-> cookie, filters |-> filters,
                                    skip |-> skip, per_page |-> per_page,
                                    status |-> 500]
    /\ UNCHANGED <<users, checks, products, nextId, today, sess, requested>>

\* ------------------------------------------------------------ the requests
\* Requests as the specified contract admits them: a non-blank name, a
\* non-negative price and quantity (0.50 of a unit or 1 unit at 1.00),
\* payment of 1.00 in cash.
Requests ==
    CheckCreate(ProductCreate({"Milk"}, {100}, {50, 100}),
                PaymentCreate({"cash"}, {100}))

\* Requests as the schemas admit them: any string as name and payment type,
\* any Decimal as price, quantity and amount.
AnyRequests ==
    CheckCreate(ProductCreate({"", "Milk"}, {-100, 10}, {-100, 100}),
                PaymentCreate({"cash", "crypto"}, {-100, 30}))

CheckIds == 1..MaxId

\* Requests are served one at a time (session 1) ...
Serial == {1}

\* ... by either user, logged in, or by a caller with no cookie.
Cookies == { CookieOf(usr.username) : usr \in Users } \cup {None}

Create(sessions, requests) ==
    \E s \in sessions, cookie \in Cookies, check_data \in requests :
        CreateCheck(s, cookie, check_data)

Next ==
    \/ Create(Serial, Requests)
    \/ \E s \in Serial : InsertProducts(s)
    \/ \E s \in Serial : Commit(s)
    \/ \E s \in Serial : Fail(s)
    \/ \E cookie \in Cookies, check_id \in CheckIds :
           GetCheckById(cookie, check_id)
    \/ \E caller \in Callers, check_id \in CheckIds :
           GetCheckText(caller, check_id, DefaultWidths)

Spec == Init /\ [][Next]_vars

\* Arbitrary requests, when the id sequence has one identifier left (earlier
\* requests failed and were rolled back; their ids are not reused).
InitAny ==
    /\ users = Users
    /\ checks = {}
    /\ products = <<>>
    /\ nextId = MaxId
    /\ today = 1
    /\ sess = [s \in Sessions |-> Idle]
    /\ requested = <<>>
    /\ ev = [op |-> "init"]

NextAny ==
    \/ Create(Serial, AnyRequests)
    \/ \E s \in Serial : InsertProducts(s)
    \/ \E s \in Serial : Commit(s)
    \/ \E s \in Serial : Fail(s)

SpecAny == InitAny /\ [][NextAny]_vars

\* Prices of 0.10 and 0.20 for one unit, paid with 0.30 or 1.00 in cash:
\* requests the contract admits, with amounts that are no whole numbers.
DecimalRequests ==
    CheckCreate(ProductCreate({"Milk"}, {10, 20}, {100}),
                PaymentCreate({"cash"}, {30, 100}))

NextDecimal ==
    \/ Create(Serial, DecimalRequests)
    \/ \E s \in Serial : InsertProducts(s)
    \/ \E s \in Serial : Commit(s)
    \/ \E s \in Serial : Fail(s)

SpecDecimal == InitAny /\ [][NextDecimal]_vars

\* Listing: nothing or one unit at 1.00, paid with 1.00 in cash or by card,
\* on different days.
ListRequests ==
    CheckCreate(ProductCreate({"Milk"}, {100}, {100}),
                PaymentCreate({"cash", "card"}, {100}))

\* created_from / created_to are day numbers; min_total / max_total are in
\* hundredths (Query(None, ge=0)); payment_type matches ^(cash|card)$.
Filters == CheckFilterParams({MaxDay}, {0, 100}, {"cash"})
NoFilters ==
    [ created_from |-> None, created_to |-> None, min_total |-> None,
      max_total |-> None, payment_type |-> None ]

\* list_checks(skip: int = 0, per_page: int = 10)
DefaultSkip == 0
DefaultPerPage == 10

\* Filtered listing of a store that holds at most one check (the id sequence
\* has one identifier left, as in InitAny).
NextList ==
    \/ Create(Serial, ListRequests)
    \/ \E s \in Serial : InsertProducts(s)
    \/ \E s \in Serial : Commit(s)
    \/ \E s \in Serial : Fail(s)
    \/ Tick
    \/ \E cookie \in Cookies, filters \in Filters :
           ListChecks(cookie, filters, DefaultSkip, DefaultPerPage)

SpecList == InitAny /\ [][NextList]_vars

\* Paging through the unfiltered list: one unit at 1.00 paid in cash.
PageRequests ==
    CheckCreate(ProductCreate({"Milk"}, {100}, {100}),
                PaymentCreate({"cash"}, {100}))

NextPage ==
    \/ Create(Serial, PageRequests)
    \/ \E s \in Serial : InsertProducts(s)
    \/ \E s \in Serial : Commit(s)
    \/ \E s \in Serial : Fail(s)
    \/ \E cookie \in Cookies, skip \in 0..(MaxId - 1), per_page \in 1..MaxId :
           ListChecks(cookie, NoFilters, skip, per_page)

SpecPage == Init /\ [][NextPage]_vars

\* Receipts: two units of Bread at 25.50 and one of Milk at 40.00, in any
\* combination, paid with 100.00 in cash.
ReceiptRequests ==
    CheckCreate({ [name |-> "Bread", price |-> 2550, quantity |-> 200],
                  [name |-> "Milk", price |-> 4000, quantity |-> 100] },
                PaymentCreate({"cash"}, {10000}))

\* The column widths a caller asks for: the defaults, or a wider first column.
Widths == { DefaultWidths, [DefaultWidths EXCEPT !.fop_width = 12] }

NextReceipt ==
    \/ Create(Serial, ReceiptRequests)
    \/ \E s \in Serial : InsertProducts(s)
    \/ \E s \in Serial : Commit(s)
    \/ \E s \in Serial : Fail(s)
    \/ \E caller \in Callers, check_id \in CheckIds, widths \in Widths :
           GetCheckText(caller, check_id, widths)

SpecReceipt == InitAny /\ [][NextReceipt]_vars

\* Every operation of the service, on checks of Bread and Milk at 1.00 each,
\* paid with 2.00 in cash.
FrameRequests ==
    CheckCreate(ProductCreate({"Bread", "Milk"}, {100}, {100}),
                PaymentCreate({"cash"}, {200}))

\* Eve registers; Ann's name is taken.
Registrations ==
    Registration({"Eve Fox"}, {"ann", "eve"}, {"EvePw1"})

NextFrame ==
    \/ Create(Serial, FrameRequests)
    \/ \E s \in Serial : InsertProducts(s)
    \/ \E s \in Serial : Commit(s)
    \/ \E s \in Serial : Fail(s)
    \/ \E cookie \in Cookies, check_id \in CheckIds :
           GetCheckById(cookie, check_id)
    \/ \E cookie \in Cookies :
           ListChecks(cookie, NoFilters, DefaultSkip, DefaultPerPage)
    \/ \E caller \in Callers, check_id \in CheckIds :
           GetCheckText(caller, check_id, DefaultWidths)
    \/ \E s \in Serial, user_data \in Registrations :
           RegisterUser(s, user_data)
    \/ \E s \in Serial : CommitUser(s)
    \/ \E username \in {"ann", "eve"}, password \in {"AnnPw1", "EvePw1"} :
           LoginUser(username, password)

SpecFrame == Init /\ [][NextFrame]_vars

\* Authentication: tokens signed with the server key or another, without
\* exp, with an exp that passes during the run or one that does not, for
\* Ann, for a name no user has, or without sub.
Tokens == Token({SecretKey, "other key"}, {1, MaxDay + 1}, {"ann", "zed"})
AnyCookies == Some(Tokens) \cup {None}

\* One unit at 1.00 paid with 1.00 in cash, or with nothing.
AuthRequests ==
    CheckCreate(ProductCreate({"Milk"}, {100}, {100}),
                PaymentCreate({"cash"}, {0, 100}))

NextAuth ==
    \/ \E s \in Serial, cookie \in AnyCookies, check_data \in AuthRequests :
           CreateCheck(s, cookie, check_data)
    \/ \E s \in Serial : InsertProducts(s)
    \/ \E s \in Serial : Commit(s)
    \/ \E s \in Serial : Fail(s)
    \/ Tick
    \/ \E cookie \in AnyCookies, check_id \in CheckIds :
           GetCheckById(cookie, check_id)
    \/ \E cookie \in AnyCookies :
           ListChecks(cookie, NoFilters, DefaultSkip, DefaultPerPage)

SpecAuth == InitAny /\ [][NextAuth]_vars

\* ... or two at a time.
Concurrent == Sessions

\* Registrations of Ann's name, which is taken, and of two new names.
NewUsers ==
    Registration({"Eve Fox"}, {"ann", "eve", "zed"}, {"EvePw1", "ZedPw1"})

NextRegister ==
    \/ \E s \in Concurrent, user_data \in NewUsers : RegisterUser(s, user_data)
    \/ \E s \in Concurrent : CommitUser(s)
    \/ \E username \in {"ann", "eve"}, password \in {"AnnPw1", "EvePw1"} :
           LoginUser(username, password)

SpecRegister == Init /\ [][NextRegister]_vars

\* Two create requests at a time: units of Milk at 1.00, paid with 5.00 in
\* cash.
ConcurrentRequests ==
    CheckCreate(ProductCreate({"Milk"}, {100}, {100}),
                PaymentCreate({"cash"}, {500}))

NextConcurrent ==
    \/ Create(Concurrent, ConcurrentRequests)
    \/ \E s \in Concurrent : InsertProducts(s)
    \/ \E s \in Concurrent : Commit(s)
    \/ \E s \in Concurrent : Fail(s)

SpecConcurrent == Init /\ [][NextConcurrent]_vars

\* ================================================================ claims

\* A create request whose payment amount is below the sum of price x quantity.
Insufficient(check_data) ==
    check_data.payment.amount < SumTotals(check_data.products)

\* C1: every create request of an authenticated caller whose payment amount
\* is less than the sum over its products of price x quantity is answered
\* with HTTP 400, and the step that answers it leaves the stored checks and
\* the stored products as they were.
C1_InsufficientPaymentRejected ==
    [][ (ev'.op = "create" /\ ev'.caller \in UserIds /\ Insufficient(ev'.req))
          => (ev'.status = 400 /\ checks' = checks /\ products' = products)
      ]_vars

\* C1 witness: an insufficient request was rejected while a check was stored.
C1_Witness ==
    /\ ev.op = "create" /\ ev.caller \in UserIds
    /\ Insufficient(ev.req) /\ ev.status = 400
    /\ checks # {} /\ products # <<>>

\* The exact sum of the doubles in the total column of some product rows.
RECURSIVE SumOfTotals(_)
SumOfTotals(rows) ==
    IF rows = <<>> THEN FZero
    ELSE FAdd(Head(rows).total, SumOfTotals(Tail(rows)))

\* C2: every stored check's total equals the sum of the totals of its stored
\* products, and its total plus its rest equals its payment_amount.
C2_TotalsConsistent ==
    \A c \in checks :
        /\ c.total = SumOfTotals(ProductsOf(products, c.id))
        /\ FAdd(c.total, c.rest) = c.payment_amount

\* C3: getById by an authenticated user never returns a check of another
\* user; for the id of another user's check the response is the same 404 as
\* for an id that no check has.
C3_GetByIdOwnerScoped ==
    (ev.op = "get" /\ ev.caller \in UserIds) =>
        /\ ev.status = 200 => ev.check.user_id = ev.caller
        /\ (\E c \in checks : c.id = ev.id /\ c.user_id # ev.caller) =>
               ev = [op |-> "get", caller |-> ev.caller, cookie |-> ev.cookie,
                     id |-> ev.id, status |-> 404]

\* C3 witness: a user asked for a stored check of another user and got 404.
C3_Witness ==
    /\ ev.op = "get" /\ ev.caller \in UserIds /\ ev.status = 404
    /\ \E c \in checks : c.id = ev.id /\ c.user_id # ev.caller

\* C4: the text receipt of a check is returned only to the owner of the
\* check; any other caller gets not-found.
C4_TextOwnerOnly ==
    (ev.op = "text" /\ ev.status = 200) => ev.check.user_id = ev.caller

\* C5: a stored check always has exactly the products its request
\* submitted, every stored product belongs to a stored check, and nothing of a
\* request still in progress (or failed) is stored.
C5_CreateAtomic ==
    /\ \A c \in checks :
         /\ c.id \in DOMAIN requested
         /\ ProductsOf(products, c.id) =
              [ i \in 1..Len(requested[c.id]) |->
                  NewProduct(c.id, requested[c.id][i]) ]
    /\ \A i \in 1..Len(products) :
         \E c \in checks : c.id = products[i].check_id
    /\ \A s \in Sessions :
         sess[s].pc # "idle" =>
           /\ \A c \in checks : c.id # sess[s].new_check.id
           /\ ProductsOf(products, sess[s].new_check.id) = <<>>
    /\ \A id \in 1..(nextId - 1) :
         (id \notin DOMAIN requested) =>
           /\ \A c \in checks : c.id # id
           /\ ProductsOf(products, id) = <<>>

\* C5 witness: a request holds its header and two products in an open
\* transaction while an earlier check is stored with its two products.
C5_Witness ==
    /\ \E s \in Sessions :
         sess[s].pc = "products" /\ Len(sess[s].pending) = 2
    /\ \E c \in checks : Len(ProductsOf(products, c.id)) = 2

\* A line item the specification admits.
LineItemValid(product) ==
    product.name # "" /\ product.price >= 0 /\ product.quantity >= 0

\* C6: no check is stored from a request that holds a product with a blank
\* name, a negative price or a negative quantity.
C6_InvalidLineItemNotStored ==
    \A c \in checks :
        \A i \in 1..Len(requested[c.id]) : LineItemValid(requested[c.id][i])

\* What the claim asks of a returned check, for the filters supplied.
Satisfies(filters, user_id, check) ==
    /\ check.user_id = user_id
    /\ filters.created_from # None =>
           check.created_at >= filters.created_from[1]
    /\ filters.created_to # None =>
           check.created_at <= filters.created_to[1]
    /\ filters.min_total # None =>
           FLeq(ToFloat(filters.min_total[1]), check.total)
    /\ filters.max_total # None =>
           FLeq(check.total, ToFloat(filters.max_total[1]))
    /\ filters.payment_type # None =>
           check.payment_type = filters.payment_type[1]

\* C7: a successful list returns exactly the caller's checks that satisfy
\* every supplied filter (the page being large enough to hold them all).
C7_ListMatchesFilters ==
    (ev.op = "list" /\ ev.status = 200 /\ ev.skip = 0
       /\ ev.per_page >= Cardinality(checks)) =>
        { ev.result[i] : i \in 1..Len(ev.result) } =
            { c \in checks : Satisfies(ev.filters, ev.caller, c) }

\* C8: with the store unchanged, the page at offset N with limit L is the
\* full matching sequence without its first N rows, cut to L rows.
C8_PageOfFullSequence ==
    [][ (/\ ev.op = "list" /\ ev.status = 200
         /\ ev'.op = "list" /\ ev'.status = 200
         /\ ev'.caller = ev.caller /\ ev'.filters = ev.filters
         /\ ev.skip = 0 /\ ev.per_page >= Cardinality(checks)
         /\ checks' = checks)
          => /\ Len(ev'.result) <= ev'.per_page
             /\ ev'.result =
                  SubSeq(ev.result, ev'.skip + 1,
                         Min(Len(ev.result), ev'.skip + ev'.per_page))
      ]_vars

\* C9: every stored check has payment_type "cash" or "card".
C9_PaymentTypeClosed ==
    \A c \in checks : c.payment_type \in {"cash", "card"}

\* C10: no stored check has a negative total, payment_amount or rest, and no
\* stored product a negative price, quantity or total.
C10_NonNegative ==
    /\ \A c \in checks :
         /\ ~FLess(c.total, FZero)
         /\ ~FLess(c.payment_amount, FZero)
         /\ ~FLess(c.rest, FZero)
    /\ \A i \in 1..Len(products) :
         /\ ~FLess(products[i].price, FZero)
         /\ ~FLess(products[i].quantity, FZero)
         /\ ~FLess(products[i].total, FZero)

\* The scenario: Bread 25.50 x 2 and Milk 40.00 x 1, paid 100.00 in cash.
Scenario ==
    [ products |-> << [name |-> "Bread", price |-> 2550, quantity |-> 200],
                      [name |-> "Milk", price |-> 4000, quantity |-> 100] >>,
      payment |-> [type |-> "cash", amount |-> 10000] ]

\* A line that shows the label, then spaces, then the amount.
Shows(line, label, amount) ==
    \E n \in 0..Len(line) : line = label \o Repeat(" ", n) \o amount

\* C11: the scenario request is not rejected; when it commits, the answer is
\* a success and the stored check has total 91.00 and rest 9.00 and two
\* products with totals 51.00 and 40.00; the text receipt of that check shows
\* 91.00, 100.00 and 9.00 in its three summary rows, in that order.
C11_Scenario ==
    /\ (ev.op = "create" /\ ev.caller \in UserIds /\ ev.req = Scenario) =>
         /\ ev.status # 400
         /\ "id" \in DOMAIN ev =>
              /\ ev.status = 200
              /\ \E c \in checks :
                   /\ c.id = ev.id
                   /\ c.total = [u |-> 9100, e |-> 0]
                   /\ c.rest = [u |-> 900, e |-> 0]
                   /\ LET rows == ProductsOf(products, c.id)
                      IN  /\ Len(rows) = 2
                          /\ rows[1].total = [u |-> 5100, e |-> 0]
                          /\ rows[2].total = [u |-> 4000, e |-> 0]
    /\ (ev.op = "text" /\ ev.status = 200
          /\ requested[ev.id] = Scenario.products) =>
         LET n == Len(ev.text)
         IN  /\ Shows(ev.text[n - 5], "SUMA", "91.00")
             /\ Shows(ev.text[n - 4], "Kartka", "100.00")
             /\ Shows(ev.text[n - 3], "Resta", "9.00")

\* C11 witness: the receipt of the stored scenario check was returned.
C11_Witness ==
    /\ ev.op = "text" /\ ev.status = 200
    /\ requested[ev.id] = Scenario.products
    /\ \E c \in checks : c.id = ev.id /\ c.total = [u |-> 9100, e |-> 0]

\* C12: in a rendered receipt the header line, every separator rule and each
\* of the three summary rows have the same length, the line width.
C12_LinesHaveLineWidth ==
    (ev.op = "text" /\ ev.status = 200) =>
        LET n == Len(ev.text)
            line_width == Len(ev.text[2])
        IN  \A i \in {1, 2, n - 6, n - 5, n - 4, n - 3, n - 2} :
                Len(ev.text[i]) = line_width

\* A line that is the text after some spaces, and may go on with spaces.
Labelled(line, text) ==
    \E j, k \in 0..Len(line) : line = Repeat(" ", j) \o text \o Repeat(" ", k)

\* C13: every receipt is the header line with the owner's full name, a rule
\* of "=", one block per product of the check in insertion order, a rule of
\* "-", the three summary rows total, amount tendered and change, a rule of
\* "=", the creation-date line and the thank-you line, in this order, the
\* rules as long as the header line.
C13_SectionsInOrder ==
    (ev.op = "text" /\ ev.status = 200) =>
        LET n == Len(ev.text)
            rows == ProductsOf(products, ev.id)
            owner == CHOOSE usr \in users : usr.id = ev.check.user_id
            width == Len(ev.text[1])
        IN  /\ n = 9 + 2 * Len(rows)
            /\ Labelled(ev.text[1], "FOP " \o owner.full_name)
            /\ ev.text[2] = Repeat("=", width)
            /\ \A i \in 1..(2 * Len(rows)) :
                 ev.text[2 + i] = ProductBlocks(rows, ev.widths)[i]
            /\ ev.text[n - 6] = Repeat("-", width)
            /\ Shows(ev.text[n - 5], "SUMA", FixedPoint(ev.check.total, TRUE))
            /\ Shows(ev.text[n - 4], "Kartka",
                     FixedPoint(ev.check.payment_amount, TRUE))
            /\ Shows(ev.text[n - 3], "Resta", FixedPoint(ev.check.rest, TRUE))
            /\ ev.text[n - 2] = Repeat("=", width)
            /\ Labelled(ev.text[n - 1], strftime(ev.check.created_at))
            /\ Labelled(ev.text[n], "Dakuemo za pokupku!")

\* C14: the block of every product of a receipt is two lines: the first is
\* the product's name and then "quantity x unit price", the second is the
\* line total alone.
C14_ProductBlockLayout ==
    (ev.op = "text" /\ ev.status = 200) =>
        \A i \in 1..Len(ev.products) :
            LET product == ev.products[i]
                first == ev.text[2 * i + 1]
                second == ev.text[2 * i + 2]
            IN  /\ \E j, k \in 0..Len(first) :
                     first = product.name \o Repeat(" ", j)
                               \o FixedPoint(product.quantity, FALSE)
                               \o " x " \o Repeat(" ", k)
                               \o FixedPoint(product.price, TRUE)
                /\ \E j \in 0..Len(second) :
                     second = Repeat(" ", j)
                                \o FixedPoint(product.total, TRUE)

\* C15: getById of a stored check by its owner returns that check with all
\* of its products; it is never answered not-found or with a fault.
C15_OwnerGetsCheck ==
    (/\ ev.op = "get" /\ ev.caller \in UserIds
     /\ \E c \in checks : c.id = ev.id /\ c.user_id = ev.caller) =>
        /\ ev.status = 200
        /\ ev.check \in checks /\ ev.check.id = ev.id
        /\ ev.products \in selectinload(products, ev.id)

\* C16: a create request that is answered with an error has persisted
\* nothing: the step that answers it leaves the stored checks and products as
\* they were.
C16_ErrorMeansNothingStored ==
    [][ (ev'.op = "create" /\ ev'.status # 200)
          => (checks' = checks /\ products' = products) ]_vars

\* C17: no step changes a stored check or the products stored for it, and
\* two renderings of the same check with the same widths, one after the
\* other, give the same text.
C17_StoredChecksImmutable ==
    [][ /\ \A c \in checks :
             /\ c \in checks'
             /\ ProductsOf(products', c.id) = ProductsOf(products, c.id)
        /\ (/\ ev.op = "text" /\ ev.status = 200
            /\ ev'.op = "text" /\ ev'.status = 200
            /\ ev'.id = ev.id /\ ev'.widths = ev.widths)
             => ev'.text = ev.text
      ]_vars

\* A cookie that holds a token signed with the server key whose exp is not in
\* the past.
ValidToken(cookie, now) ==
    /\ cookie # None
    /\ cookie[1].key = SecretKey
    /\ cookie[1].exp # None
    /\ cookie[1].exp[1] >= now

\* C18: a create, list or getById request without cookie, with a token that
\* does not decode with the server key, without exp or with an exp in the
\* past is answered with HTTP 401 by a step that changes nothing, and no
\* create is begun for it.
C18_InvalidTokenRejected ==
    [][ /\ (/\ ev'.op \in {"create", "list", "get"}
            /\ "cookie" \in DOMAIN ev'
            /\ ~ValidToken(ev'.cookie, today))
             => /\ ev'.status = 401
                /\ UNCHANGED <<users, checks, products, nextId, sess,
                               requested>>
        /\ \A s \in Sessions :
             (sess[s].pc = "idle" /\ sess'[s].pc = "header")
               => ValidToken(sess'[s].cookie, today)
      ]_vars

\* C18 witness: a token of the server key whose exp has passed was refused
\* while a check was stored.
C18_Witness ==
    /\ ev.op \in {"create", "list", "get"} /\ "cookie" \in DOMAIN ev
    /\ ev.cookie # None /\ ev.cookie[1].key = SecretKey
    /\ ev.cookie[1].exp # None /\ ev.cookie[1].exp[1] < today
    /\ ev.status = 401
    /\ checks # {}

\* C19: no two stored users ever have the same username, and a register
\* request for a username that is stored is answered with HTTP 400 by a step
\* that adds no user.
C19_UsernamesUnique ==
    [][ /\ \A usr, other \in users' :
             usr.username = other.username => usr = other
        /\ (/\ ev'.op = "register"
            /\ \E usr \in users : usr.username = ev'.req.username)
             => (ev'.status = 400 /\ users' = users)
      ]_vars

\* C20: under every interleaving of create requests, the step that answers a
\* request with success adds exactly one check, with an id no other stored
\* check has and the requesting user as user_id, stores for it exactly the
\* products of that request, and leaves the products of every other check as
\* they were.
C20_ConcurrentCreatesIndependent ==
    [][ \A s \in Sessions :
          (/\ sess[s].pc = "products" /\ sess'[s].pc = "idle"
           /\ ev'.op = "create" /\ ev'.status = 200)
            => \E c \in checks' :
                 /\ c \notin checks
                 /\ checks' = checks \cup {c}
                 /\ \A d \in checks : d.id # c.id
                 /\ \E usr \in users :
                      /\ <<usr.username>> = sess[s].cookie[1].sub
                      /\ c.user_id = usr.id
                 /\ ProductsOf(products', c.id) =
                      [ i \in 1..Len(sess[s].req.products) |->
                          NewProduct(c.id, sess[s].req.products[i]) ]
                 /\ \A d \in checks :
                      ProductsOf(products', d.id) = ProductsOf(products, d.id)
      ]_vars

\* C20 witness: a request was answered with success while a request that
\* began before it was still open.
C20_Witness ==
    /\ ev.op = "create" /\ ev.status = 200
    /\ \E s \in Sessions :
         /\ sess[s].pc = "products"
         /\ sess[s].new_check.id < ev.id
         /\ sess[s].req.products # <<>>

\* C21: create, list and getById run only with the identity of a stored
\* user: a create in progress belongs to a stored user, and a request whose
\* token is signed with the server key and unexpired but whose sub names no
\* stored user (or is absent) is answered with HTTP 401.
C21_UnknownSubjectRejected ==
    /\ \A s \in Sessions :
         sess[s].pc # "idle" => sess[s].caller \in { usr.id : usr \in users }
    /\ (/\ ev.op \in {"create", "list", "get"}
        /\ "cookie" \in DOMAIN ev
        /\ ValidToken(ev.cookie, today)
        /\ get_user_or_none(users, ev.cookie[1].sub) = {None})
         => ev.status = 401

====
